---------------------------- MODULE Spec2Model ----------------------------
(***************************************************************************)
(* A model of discord_lc_bot.py: the user registry mirrored to a JSON      *)
(* file, the slash-command handlers running on one asyncio event loop, the *)
(* LeetCode judge client, the three-day stats aggregation and the embed    *)
(* formatter.                                                              *)
(*                                                                         *)
(* Four specifications share the variables:                                *)
(*   SpecAgg       one call of get_user_stats against every judge answer;  *)
(*   SpecFmt       format_user_stats_embed applied to a summary map;       *)
(*   SpecRegistry  the registry and its file across process lifetimes;     *)
(*   SpecLoop      the command handlers interleaved on the event loop.     *)
(***************************************************************************)
EXTENDS Integers, Sequences, FiniteSets, TLC

VARIABLES
    \* ---- the bot process (SpecRegistry, SpecLoop)
    user_data,      \* the in-memory registry: an insertion-ordered dict
    file,           \* user_data.json on disk: absent, or its JSON text
    boot,           \* "starting" until on_ready has run in this process
    reply,          \* the message this process sent last
    loopBusy,       \* the event-loop thread is inside a blocking call
    allTask,        \* the all_user_stats handler in flight
    userTask,       \* the user_stats handler in flight
    registered,     \* history: user_data as the last successful add_handle left it
    lastAdd,        \* history: the arguments of the last successful add_handle
    \* ---- one call of get_user_stats (SpecAgg)
    pc,             \* position in get_user_stats
    user_timezone,  \* its timezone argument
    fetchBody,      \* what the judge answered to the submissions query
    submissions,    \* data['data']['recentAcSubmissionList']
    today,          \* now.date() in the user's timezone
    idx,            \* the loop's position in submissions
    summary,        \* the summary dict being filled
    judged,         \* per processed submission: what the difficulty lookup gave
    result,         \* what get_user_stats returned
    exc,            \* the exception that left get_user_stats, if one did
    \* ---- one call of format_user_stats_embed (SpecFmt)
    fmtIn,          \* the summary given to the formatter
    fmtOut          \* the embed it built

botVars == <<user_data, file, boot, reply, loopBusy, allTask, userTask,
             registered, lastAdd>>
aggVars == <<pc, user_timezone, fetchBody, submissions, today, idx, summary,
             judged, result, exc>>
fmtVars == <<fmtIn, fmtOut>>
vars == <<botVars, aggVars, fmtVars>>

---------------------------------------------------------------------------
(* Bounds and sample inputs                                                *)

\* The longest submission list the judge answers with ("limit": 100, scaled).
MaxSubs == 2

\* Two instants at which get_user_stats reads the clock (epoch seconds):
\* 2024-11-03 06:30 UTC and 2024-11-04 02:00 UTC.
Nows == {1730615400, 1730685600}

\* The submissions the judge may list: around the three-day window, at both of
\* its edges, and later than the reader's clock.
SampleSubmissions ==
    { [title |-> "Two Sum", titleSlug |-> "two-sum", status |-> 10,
       timestamp |-> 1730160000],       \* 2024-10-29 00:00 UTC
      [title |-> "Add Two Numbers", titleSlug |-> "add-two-numbers", status |-> 10,
       timestamp |-> 1730376000],       \* 2024-10-31 12:00 UTC
      [title |-> "Two Sum", titleSlug |-> "two-sum", status |-> 10,
       timestamp |-> 1730430000],       \* 2024-11-01 03:00 UTC
      [title |-> "Add Two Numbers", titleSlug |-> "add-two-numbers", status |-> 10,
       timestamp |-> 1730577600],       \* 2024-11-02 20:00 UTC
      [title |-> "Two Sum", titleSlug |-> "two-sum", status |-> 10,
       timestamp |-> 1730610000],       \* 2024-11-03 05:00 UTC
      [title |-> "LRU Cache", titleSlug |-> "lru-cache", status |-> 10,
       timestamp |-> 1730707200] }      \* 2024-11-04 08:00 UTC

SeqsUpTo(S, n) == UNION { [1..k -> S] : k \in 0..n }

SubmissionLists == SeqsUpTo(SampleSubmissions, MaxSubs)

---------------------------------------------------------------------------
(* Python values                                                           *)

\* An insertion-ordered dict: its keys in order, and the value of each.
EmptyDict == [keys |-> <<>>, val |-> <<>>]

DictHas(d, k) == \E n \in 1..Len(d.keys) : d.keys[n] = k

DictPos(d, k) == CHOOSE n \in 1..Len(d.keys) : d.keys[n] = k

DictGet(d, k) == d.val[DictPos(d, k)]

\* d[k] = v: an existing key keeps its place, a new one goes last.
DictSet(d, k, v) ==
    IF DictHas(d, k)
    THEN [d EXCEPT !.val[DictPos(d, k)] = v]
    ELSE [keys |-> Append(d.keys, k), val |-> Append(d.val, v)]

\* d.items(), in iteration order.
DictItems(d) == [n \in 1..Len(d.keys) |-> <<d.keys[n], d.val[n]>>]

\* JSON values as the judge's responses carry them.
JNull == [t |-> "null"]
JStr(s) == [t |-> "str", s |-> s]
JArr(a) == [t |-> "arr", a |-> a]
JObj(d) == [t |-> "obj", d |-> d]
JObj1(k, v) == JObj(DictSet(EmptyDict, k, v))

\* A response body: text that parses as JSON, or text that does not.
Json(v) == [parses |-> TRUE, value |-> v]
NotJson == [parses |-> FALSE]
\* requests.post itself failing (no response at all).
TransportError == [transport |-> "failed"]
IsTransportError(b) == "transport" \in DOMAIN b

Return(v) == [kind |-> "return", value |-> v]
Raise(e) == [kind |-> "raise", exc |-> e]
None == [t |-> "None"]
IsNone(v) == v.t = "None"

\* obj[key] as Python evaluates it on a parsed JSON value.
Subscript(obj, key) ==
    IF obj.t = "obj"
    THEN IF DictHas(obj.d, key) THEN Return(DictGet(obj.d, key)) ELSE Raise("KeyError")
    ELSE Raise("TypeError")

\* "errors" in data
HasErrors(data) == data.t = "obj" /\ DictHas(data.d, "errors")

---------------------------------------------------------------------------
(* Timezones                                                               *)

TIMEZONE_MAPPING ==
    << [abbr |-> <<"I","S","T">>, zone |-> "Asia/Kolkata"],
       [abbr |-> <<"C","D","T">>, zone |-> "America/Chicago"],
       [abbr |-> <<"P","D","T">>, zone |-> "America/Los_Angeles"],
       [abbr |-> <<"P","S","T">>, zone |-> "America/Los_Angeles"],
       [abbr |-> <<"E","S","T">>, zone |-> "America/New_York"] >>

TimezoneKeys == [n \in 1..Len(TIMEZONE_MAPPING) |-> TIMEZONE_MAPPING[n].abbr]

Zones == { TIMEZONE_MAPPING[n].zone : n \in 1..Len(TIMEZONE_MAPPING) }

\* The zone's offset from UTC, in seconds, at instant ts, as pytz's tables give
\* it between March 2024 and March 2025: US daylight time ended on 2024-11-03
\* at 02:00 local time.
UtcOffset(zone, ts) ==
    CASE zone = "Asia/Kolkata"        -> 19800
      [] zone = "America/New_York"    -> IF ts < 1730613600 THEN -14400 ELSE -18000
      [] zone = "America/Chicago"     -> IF ts < 1730617200 THEN -18000 ELSE -21600
      [] zone = "America/Los_Angeles" -> IF ts < 1730624400 THEN -25200 ELSE -28800

\* datetime.fromtimestamp(ts, tz=pytz.UTC).astimezone(tz).date(), as a day number.
LocalDate(ts, zone) == (ts + UtcOffset(zone, ts)) \div 86400

---------------------------------------------------------------------------
(* Judge client                                                            *)

\* The bodies the judge may answer the difficulty query with.
DifficultyBodies ==
    { NotJson,
      Json(JObj1("errors", JArr(<<JStr("query failed")>>))),
      Json(JObj1("data", JNull)),
      Json(JObj1("data", JObj1("question", JNull))),
      Json(JObj1("data", JObj1("question", JObj1("difficulty", JStr("Easy"))))),
      Json(JObj1("data", JObj1("question", JObj1("difficulty", JStr("Hard"))))) }

\* get_problem_difficulty, from the response on: the difficulty, None, or the
\* exception that leaves it.
get_problem_difficulty(body) ==
    IF IsTransportError(body) THEN Raise("ConnectionError")
    ELSE IF ~body.parses THEN Raise("JSONDecodeError")      \* line 74, not guarded
    ELSE LET data == body.value IN
        IF HasErrors(data) THEN Return(None)
        ELSE LET d == Subscript(data, "data") IN
            IF d.kind = "raise" THEN d
            ELSE LET q == Subscript(d.value, "question") IN
                IF q.kind = "raise" THEN q
                ELSE LET f == Subscript(q.value, "difficulty") IN
                    IF f.kind = "raise" THEN f
                    ELSE IF f.value.t = "null" THEN Return(None)
                    ELSE Return(f.value)

\* `not difficulty`
Falsy(v) == v.t = "None" \/ (v.t = "str" /\ v.s = "")

\* The bodies the judge may answer the submissions query with.
FetchBodies ==
    { NotJson,
      Json(JObj1("errors", JArr(<<JStr("user not found")>>))),
      Json(JObj(EmptyDict)),
      Json(JObj1("data", JNull)),
      Json(JObj1("data", JObj1("recentAcSubmissionList", JNull))) }
    \cup { Json(JObj1("data", JObj1("recentAcSubmissionList", JArr(l)))) :
             l \in SubmissionLists }

\* Lines 99-110 of get_user_stats, from the response on: the submission list,
\* None, or the exception that leaves it.
FetchSubmissions(body) ==
    IF IsTransportError(body) THEN Raise("ConnectionError")
    ELSE IF ~body.parses THEN Return(None)                  \* lines 100-104
    ELSE LET data == body.value IN
        IF HasErrors(data) THEN Return(None)
        ELSE LET d == Subscript(data, "data") IN
            IF d.kind = "raise" THEN d
            ELSE Subscript(d.value, "recentAcSubmissionList")

---------------------------------------------------------------------------
(* Stats aggregator: get_user_stats                                        *)

BucketNames == <<"today", "yesterday", "two_days_ago">>

\* The summary literal of lines 113-117.
NewSummary == [keys |-> BucketNames, val |-> [n \in 1..3 |-> <<>>]]

\* summary[bucket].append(entry)
BucketAppend(s, bucket, entry) == DictSet(s, bucket, Append(DictGet(s, bucket), entry))

\* The if/elif chain of lines 143-148: the bucket an entry of that date is
\* appended to, "none" when no branch is taken.
BucketFor(date, tdy) ==
    IF date = tdy THEN "today"
    ELSE IF date = tdy - 1 THEN "yesterday"
    ELSE IF date = tdy - 2 THEN "two_days_ago"
    ELSE "none"

\* The window check of line 129.
OutOfWindow(date, tdy) == date < tdy - 2

\* Lines 126-127: the submission's date in the user's timezone.
SubmissionDateUtc(submission, zone) == submission.timestamp \div 86400
SubmissionDate(submission, zone) == LocalDate(submission.timestamp, zone)

\* Lines 136-141.
Entry(submission, difficulty, date) ==
    [titleSlug |-> submission.titleSlug, title |-> submission.title,
     difficulty |-> difficulty, date |-> date]

aggIdle ==
    /\ pc = "idle" /\ user_timezone = "" /\ fetchBody = NotJson
    /\ submissions = <<>> /\ today = 0 /\ idx = 0 /\ summary = EmptyDict
    /\ judged = <<>> /\ result = None /\ exc = ""

\* Lines 98-123: the submissions query, and on a list the empty summary and
\* the clock.
get_user_stats_fetch ==
    /\ pc = "start"
    /\ \E body \in FetchBodies \cup {TransportError} :
        LET r == FetchSubmissions(body) IN
        /\ fetchBody' = body
        /\ \/ /\ r.kind = "raise"
              /\ pc' = "raised" /\ exc' = r.exc
              /\ UNCHANGED <<submissions, today, summary, idx, result>>
           \/ /\ r.kind = "return" /\ IsNone(r.value)
              /\ pc' = "returned" /\ result' = None
              /\ UNCHANGED <<submissions, today, summary, idx, exc>>
           \/ /\ r.kind = "return" /\ r.value.t = "null"
              \* `for submission in None` at line 125
              /\ pc' = "raised" /\ exc' = "TypeError"
              /\ UNCHANGED <<submissions, today, summary, idx, result>>
           \/ /\ r.kind = "return" /\ r.value.t = "arr"
              /\ submissions' = r.value.a
              /\ summary' = NewSummary
              /\ \E now \in Nows : today' = LocalDate(now, user_timezone)
              /\ idx' = 1 /\ pc' = "loop"
              /\ UNCHANGED <<result, exc>>
    /\ UNCHANGED <<user_timezone, judged>>

\* One pass of the loop of lines 125-148, the difficulty query included.
\* judged records, for the submission processed, what the lookup returned and
\* the bucket the entry was appended to.
get_user_stats_loop ==
    /\ pc = "loop" /\ idx <= Len(submissions)
    /\ LET submission == submissions[idx]
           submission_date == SubmissionDate(submission, user_timezone)
       IN  \/ /\ OutOfWindow(submission_date, today)
              /\ judged' = Append(judged, [difficulty |-> "not_called", bucket |-> "none"])
              /\ idx' = idx + 1
              /\ UNCHANGED <<pc, summary, exc>>
           \/ /\ ~OutOfWindow(submission_date, today)
              /\ \E body \in DifficultyBodies \cup {TransportError} :
                  LET r == get_problem_difficulty(body) IN
                  \/ /\ r.kind = "raise"
                     /\ pc' = "raised" /\ exc' = r.exc
                     /\ UNCHANGED <<summary, idx, judged>>
                  \/ /\ r.kind = "return" /\ Falsy(r.value)
                     /\ judged' = Append(judged, [difficulty |-> "None", bucket |-> "none"])
                     /\ idx' = idx + 1
                     /\ UNCHANGED <<pc, summary, exc>>
                  \/ /\ r.kind = "return" /\ ~Falsy(r.value)
                     /\ LET bucket == BucketFor(submission_date, today)
                            entry == Entry(submission, r.value.s, submission_date)
                        IN  /\ summary' = IF bucket = "none" THEN summary
                                          ELSE BucketAppend(summary, bucket, entry)
                            /\ judged' = Append(judged, [difficulty |-> r.value.s,
                                                         bucket |-> bucket])
                     /\ idx' = idx + 1
                     /\ UNCHANGED <<pc, exc>>
    /\ UNCHANGED <<user_timezone, fetchBody, submissions, today, result>>

\* Lines 150-151.
get_user_stats_return ==
    /\ pc = "loop" /\ idx > Len(submissions)
    /\ pc' = "returned" /\ result' = summary
    /\ UNCHANGED <<user_timezone, fetchBody, submissions, today, idx, summary,
                   judged, exc>>

---------------------------------------------------------------------------
(* Digest formatter: format_user_stats_embed                               *)

\* get_leetcode_problem_url
get_leetcode_problem_url(slug) == "https://leetcode.com/problems/" \o slug

\* difficulty_colors.get(difficulty, f"**{difficulty}**")
DifficultyText(difficulty) ==
    CASE difficulty = "Easy"   -> "[green] **Easy**"
      [] difficulty = "Medium" -> "[orange] **Medium**"
      [] difficulty = "Hard"   -> "[red] **Hard**"
      [] OTHER                 -> "**" \o difficulty \o "**"

\* day.capitalize() on the bucket names.
Capitalize(day) ==
    CASE day = "today"        -> "Today"
      [] day = "yesterday"    -> "Yesterday"
      [] day = "two_days_ago" -> "Two_days_ago"
      [] OTHER                -> day

\* One line of a bucket's field (line 169).
EntryLine(entry) ==
    [difficulty |-> DifficultyText(entry.difficulty), title |-> entry.title,
     url |-> get_leetcode_problem_url(entry.titleSlug), date |-> entry.date]

\* The order in which the two loops of lines 163 and 175 visit the buckets:
\* that of summary.items().
VisitedReversed(s) == [n \in 1..Len(s.keys) |-> DictItems(s)[Len(s.keys) + 1 - n]]
Visited(s) == DictItems(s)

\* The embed: one field per bucket, then the "Summary:" field with the totals.
format_user_stats_embed(name, s) ==
    LET items == Visited(s)
        bucketField(n) ==
            LET day == items[n][1]
                entries == items[n][2]
            IN  [name |-> Capitalize(day),
                 value |-> IF entries # <<>>
                           THEN [m \in 1..Len(entries) |-> EntryLine(entries[m])]
                           ELSE << [text |-> "No problems solved."] >>]
        summary_text == [n \in 1..Len(items) |->
                            [day |-> Capitalize(items[n][1]), total |-> Len(items[n][2])]]
    IN  [title |-> name \o "'s LeetCode Stats",
         fields |-> [n \in 1..Len(items) |-> bucketField(n)]
                    \o << [name |-> "Summary", value |-> summary_text] >>]

NoEmbed == [title |-> "", fields |-> <<>>]

fmtIdle == fmtIn = EmptyDict /\ fmtOut = NoEmbed

\* Entries a summary handed to the formatter may hold.
SampleEntries ==
    << [titleSlug |-> "two-sum", title |-> "Two Sum", difficulty |-> "Easy", date |-> 20030],
       [titleSlug |-> "lru-cache", title |-> "LRU Cache", difficulty |-> "Insane", date |-> 20029] >>

SampleBuckets == { SubSeq(SampleEntries, 1, n) : n \in 0..2 } \cup { SubSeq(SampleEntries, 2, 2) }

Permutations3 == { p \in [1..3 -> 1..3] : \A a, b \in 1..3 : a # b => p[a] # p[b] }

\* Summary maps holding the three buckets, in any key order.
SummaryMaps ==
    { [keys |-> [n \in 1..3 |-> BucketNames[p[n]]], val |-> v] :
        p \in Permutations3, v \in [1..3 -> SampleBuckets] }

FormatEmbed ==
    /\ fmtOut = NoEmbed
    /\ fmtOut' = format_user_stats_embed("alice", fmtIn)
    /\ UNCHANGED fmtIn

---------------------------------------------------------------------------
(* User registry and its file                                              *)

Users == {"alice", "bob"}
Handles == {"neo", "trinity"}

\* Timezone arguments as typed: recognized in any letter case, or not at all.
RawTimezones ==
    { <<"i","s","t">>, <<"P","D","T">>, <<"P","s","t">>, <<"x","y","z">>, <<>> }

\* str.upper(), letter by letter.
UpperChar(c) ==
    CASE c = "i" -> "I" [] c = "s" -> "S" [] c = "t" -> "T" [] c = "p" -> "P"
      [] c = "d" -> "D" [] c = "c" -> "C" [] c = "e" -> "E" [] c = "x" -> "X"
      [] c = "y" -> "Y" [] c = "z" -> "Z" [] OTHER -> c

Upper(raw) == [n \in 1..Len(raw) |-> UpperChar(raw[n])]

\* timezone in TIMEZONE_MAPPING
Recognized(abbr) == \E n \in 1..Len(TIMEZONE_MAPPING) : TIMEZONE_MAPPING[n].abbr = abbr

\* TIMEZONE_MAPPING[timezone]
Canonical(abbr) ==
    TIMEZONE_MAPPING[CHOOSE n \in 1..Len(TIMEZONE_MAPPING) :
                        TIMEZONE_MAPPING[n].abbr = abbr].zone

Absent == [exists |-> FALSE]

\* json.dump(user_data, f): an object of objects, keys in dict order.
JsonDump(d) ==
    JObj([keys |-> d.keys,
          val |-> [n \in 1..Len(d.keys) |->
                     JObj([keys |-> <<"handle", "timezone">>,
                           val |-> <<JStr(d.val[n].handle), JStr(d.val[n].timezone)>>])]])

\* json.load(f) on such a text.
JsonLoad(j) ==
    [keys |-> j.d.keys,
     val |-> [n \in 1..Len(j.d.keys) |->
                [handle |-> DictGet(j.d.val[n].d, "handle").s,
                 timezone |-> DictGet(j.d.val[n].d, "timezone").s]]]

\* save_user_data: the file after it, given the registry in memory.
SaveLastOnly(d) ==
    [exists |-> TRUE,
     text |-> JsonDump([keys |-> SubSeq(d.keys, Len(d.keys), Len(d.keys)),
                        val |-> SubSeq(d.val, Len(d.val), Len(d.val))])]
save_user_data(d) == [exists |-> TRUE, text |-> JsonDump(d)]

\* load_user_data: the registry after it, given the file and the registry before.
load_user_data(f, d) == IF f.exists THEN JsonLoad(f.text) ELSE d

NoReply == [kind |-> "none"]
NoAdd == [user |-> ""]
IdleAll == [pc |-> "idle", to |-> "", users |-> <<>>, iter |-> <<>>, k |-> 0,
            all_stats |-> EmptyDict, sent |-> <<>>]
IdleUser == [pc |-> "idle", to |-> "", handle |-> "", timezone |-> "",
             outcome |-> Return(None)]

botIdle ==
    /\ user_data = EmptyDict /\ file = Absent /\ boot = "starting"
    /\ reply = NoReply /\ loopBusy = FALSE /\ allTask = IdleAll
    /\ userTask = IdleUser /\ registered = EmptyDict /\ lastAdd = NoAdd

\* on_ready: load_user_data, then tree.sync(). discord.py may call it again
\* after a reconnect, and does not promise to call it before other events.
on_ready ==
    /\ ~loopBusy
    /\ user_data' = load_user_data(file, user_data)
    /\ boot' = "ready"
    /\ UNCHANGED <<file, reply, loopBusy, allTask, userTask, registered, lastAdd>>

\* The process stops and a new one starts: memory is lost, the file stays.
Restart ==
    /\ user_data' = EmptyDict /\ boot' = "starting" /\ reply' = NoReply
    /\ loopBusy' = FALSE /\ allTask' = IdleAll /\ userTask' = IdleUser
    /\ UNCHANGED <<file, registered, lastAdd>>

\* add_handle with the upsert and the save done before the timezone is checked.
add_handle_unchecked(user, handle, timezone) ==
    /\ ~loopBusy
    /\ LET tz == Upper(timezone)
           zone == IF Recognized(tz) THEN Canonical(tz) ELSE "UTC"
       IN  /\ user_data' = DictSet(user_data, user, [handle |-> handle, timezone |-> zone])
           /\ file' = save_user_data(user_data')
           /\ IF Recognized(tz)
              THEN /\ reply' = [kind |-> "added", to |-> user, user |-> user,
                                handle |-> handle, timezone |-> tz]
                   /\ registered' = user_data'
                   /\ lastAdd' = [user |-> user, handle |-> handle, abbr |-> tz]
              ELSE /\ reply' = [kind |-> "invalid_timezone", to |-> user,
                                choices |-> TimezoneKeys]
                   /\ UNCHANGED <<registered, lastAdd>>
    /\ UNCHANGED <<boot, loopBusy, allTask, userTask>>

\* add_handle with the file written before the upsert.
add_handle_save_first(user, handle, timezone) ==
    /\ ~loopBusy
    /\ LET tz == Upper(timezone) IN
       IF ~Recognized(tz)
       THEN /\ reply' = [kind |-> "invalid_timezone", to |-> user,
                         choices |-> TimezoneKeys]
            /\ UNCHANGED <<user_data, file, registered, lastAdd>>
       ELSE /\ file' = save_user_data(user_data)
            /\ user_data' = DictSet(user_data, user,
                                    [handle |-> handle, timezone |-> Canonical(tz)])
            /\ reply' = [kind |-> "added", to |-> user, user |-> user,
                         handle |-> handle, timezone |-> tz]
            /\ registered' = user_data'
            /\ lastAdd' = [user |-> user, handle |-> handle, abbr |-> tz]
    /\ UNCHANGED <<boot, loopBusy, allTask, userTask>>

\* add_handle (lines 200-210). No await separates the upsert from the save.
\* registered and lastAdd record what a successful call did.
add_handle(user, handle, timezone) ==
    /\ ~loopBusy
    /\ LET tz == Upper(timezone) IN
       IF ~Recognized(tz)
       THEN /\ reply' = [kind |-> "invalid_timezone", to |-> user,
                         choices |-> TimezoneKeys]
            /\ UNCHANGED <<user_data, file, registered, lastAdd>>
       ELSE /\ user_data' = DictSet(user_data, user,
                                    [handle |-> handle, timezone |-> Canonical(tz)])
            /\ file' = save_user_data(user_data')
            /\ reply' = [kind |-> "added", to |-> user, user |-> user,
                         handle |-> handle, timezone |-> tz]
            /\ registered' = user_data'
            /\ lastAdd' = [user |-> user, handle |-> handle, abbr |-> tz]
    /\ UNCHANGED <<boot, loopBusy, allTask, userTask>>

\* list_handles (lines 212-218).
list_handles(user) ==
    /\ ~loopBusy
    /\ reply' = IF user_data = EmptyDict
                THEN [kind |-> "no_handles", to |-> user]
                ELSE [kind |-> "handles", to |-> user, lines |-> DictItems(user_data)]
    /\ UNCHANGED <<user_data, file, boot, loopBusy, allTask, userTask,
                   registered, lastAdd>>

---------------------------------------------------------------------------
(* Stats commands on the event loop                                        *)

\* What one call of get_user_stats may give its caller: a summary, None, or
\* an exception (SpecAgg reaches each of the three).
SampleSummaries == { NewSummary, BucketAppend(NewSummary, "today", SampleEntries[1]) }

StatsOutcomes ==
    { Return(s) : s \in SampleSummaries } \cup { Return(None), Raise("TypeError") }

\* `if summary:` / `if not summary:`; a dict of three keys is truthy.
Truthy(v) == v # None

Digest(to, username, s) ==
    [kind |-> "digest", to |-> to, embed |-> format_user_stats_embed(username, s)]

\* all_user_stats up to its first await (lines 244-249). One all_user_stats
\* command is followed at a time.
all_user_stats(user) ==
    /\ ~loopBusy
    /\ allTask.pc \in {"idle", "done", "raised"}
    /\ IF user_data = EmptyDict
       THEN /\ reply' = [kind |-> "no_handles", to |-> user]
            /\ allTask' = [IdleAll EXCEPT !.pc = "done", !.to = user]
       ELSE /\ reply' = [kind |-> "fetching_all", to |-> user]
            /\ allTask' = [IdleAll EXCEPT !.pc = "resume", !.to = user,
                                          !.users = user_data.keys]
    /\ UNCHANGED <<user_data, file, boot, loopBusy, userTask, registered, lastAdd>>

\* The handler resumes and enters get_all_user_stats (line 252): the loop of
\* lines 184-190 calls get_user_stats on the event-loop thread, with no await
\* until get_all_user_stats returns.
get_all_user_stats_enter ==
    /\ ~loopBusy
    /\ allTask.pc = "resume"
    /\ loopBusy' = TRUE
    /\ allTask' = [allTask EXCEPT !.pc = "querying", !.iter = DictItems(user_data),
                                  !.k = 1]
    /\ UNCHANGED <<user_data, file, boot, reply, userTask, registered, lastAdd>>

\* The first followup of lines 254-260 once get_all_user_stats has returned s.
all_user_stats_followup(s) ==
    IF s = EmptyDict
    THEN /\ reply' = [kind |-> "failed_all", to |-> allTask.to]
         /\ allTask' = [allTask EXCEPT !.pc = "done", !.all_stats = s]
    ELSE /\ reply' = Digest(allTask.to, s.keys[1], s.val[1])
         /\ allTask' = [allTask EXCEPT !.pc = IF Len(s.keys) = 1 THEN "done" ELSE "sending",
                                       !.all_stats = s, !.sent = <<s.keys[1]>>]

\* get_user_stats returns (or raises) for the user the loop is at.
get_all_user_stats_step ==
    /\ allTask.pc = "querying"
    /\ \E outcome \in StatsOutcomes :
        LET username == allTask.iter[allTask.k][1]
            stats == IF outcome.kind = "return" /\ Truthy(outcome.value)
                     THEN DictSet(allTask.all_stats, username, outcome.value)
                     ELSE allTask.all_stats
        IN  \/ /\ outcome.kind = "raise"
               /\ allTask' = [allTask EXCEPT !.pc = "raised"]
               /\ loopBusy' = FALSE
               /\ UNCHANGED reply
            \/ /\ outcome.kind = "return" /\ allTask.k < Len(allTask.iter)
               /\ allTask' = [allTask EXCEPT !.k = @ + 1, !.all_stats = stats]
               /\ UNCHANGED <<loopBusy, reply>>
            \/ /\ outcome.kind = "return" /\ allTask.k = Len(allTask.iter)
               /\ loopBusy' = FALSE
               /\ all_user_stats_followup(stats)
    /\ UNCHANGED <<user_data, file, boot, userTask, registered, lastAdd>>

\* One more pass of the loop of lines 258-260.
all_user_stats_send ==
    /\ ~loopBusy
    /\ allTask.pc = "sending"
    /\ LET n == Len(allTask.sent) + 1
           s == allTask.all_stats
       IN  /\ reply' = Digest(allTask.to, s.keys[n], s.val[n])
           /\ allTask' = [allTask EXCEPT !.sent = Append(@, s.keys[n]),
                                         !.pc = IF n = Len(s.keys) THEN "done" ELSE "sending"]
    /\ UNCHANGED <<user_data, file, boot, loopBusy, userTask, registered, lastAdd>>

\* user_stats up to run_in_executor (lines 221-234): get_user_stats is handed
\* to a worker thread. (The decorator registering the command, line 220, is
\* commented out.)
user_stats(user) ==
    /\ ~loopBusy
    /\ userTask.pc \in {"idle", "done", "raised"}
    /\ IF ~DictHas(user_data, user)
       THEN /\ reply' = [kind |-> "not_registered", to |-> user]
            /\ userTask' = [IdleUser EXCEPT !.pc = "done"]
       ELSE /\ reply' = [kind |-> "fetching_user", to |-> user]
            /\ userTask' = [IdleUser EXCEPT !.pc = "querying", !.to = user,
                               !.handle = DictGet(user_data, user).handle,
                               !.timezone = DictGet(user_data, user).timezone]
    /\ UNCHANGED <<user_data, file, boot, loopBusy, allTask, registered, lastAdd>>

\* get_user_stats ends on the worker thread.
run_in_executor_done ==
    /\ userTask.pc = "querying"
    /\ \E outcome \in StatsOutcomes :
        userTask' = [userTask EXCEPT !.pc = "finished", !.outcome = outcome]
    /\ UNCHANGED <<user_data, file, boot, reply, loopBusy, allTask, registered, lastAdd>>

\* The handler resumes with the worker's result (lines 236-241).
user_stats_resume ==
    /\ ~loopBusy
    /\ userTask.pc = "finished"
    /\ LET o == userTask.outcome IN
       IF o.kind = "raise"
       THEN /\ userTask' = [userTask EXCEPT !.pc = "raised"]
            /\ UNCHANGED reply
       ELSE /\ userTask' = [userTask EXCEPT !.pc = "done"]
            /\ reply' = IF Truthy(o.value)
                        THEN Digest(userTask.to, userTask.to, o.value)
                        ELSE [kind |-> "failed_user", to |-> userTask.to]
    /\ UNCHANGED <<user_data, file, boot, loopBusy, allTask, registered, lastAdd>>

---------------------------------------------------------------------------
(* Specifications                                                          *)

InitAgg ==
    /\ botIdle /\ fmtIdle
    /\ pc = "start" /\ user_timezone \in Zones /\ fetchBody = NotJson
    /\ submissions = <<>> /\ today = 0 /\ idx = 0 /\ summary = EmptyDict
    /\ judged = <<>> /\ result = None /\ exc = ""

NextAgg ==
    \/ get_user_stats_fetch /\ UNCHANGED <<botVars, fmtVars>>
    \/ get_user_stats_loop /\ UNCHANGED <<botVars, fmtVars>>
    \/ get_user_stats_return /\ UNCHANGED <<botVars, fmtVars>>

SpecAgg == InitAgg /\ [][NextAgg]_vars

InitFmt == botIdle /\ aggIdle /\ fmtIn \in SummaryMaps /\ fmtOut = NoEmbed

NextFmt == FormatEmbed /\ UNCHANGED <<botVars, aggVars>>

SpecFmt == InitFmt /\ [][NextFmt]_vars

InitBot == botIdle /\ aggIdle /\ fmtIdle

\* The registry across process lifetimes: startup loads, restarts, add_handle
\* and list_handles with every sample argument.
NextRegistry ==
    \/ on_ready /\ UNCHANGED <<aggVars, fmtVars>>
    \/ Restart /\ UNCHANGED <<aggVars, fmtVars>>
    \/ \E user \in Users, handle \in Handles, timezone \in RawTimezones :
         add_handle(user, handle, timezone) /\ UNCHANGED <<aggVars, fmtVars>>
    \/ \E user \in Users :
         list_handles(user) /\ UNCHANGED <<aggVars, fmtVars>>

SpecRegistry == InitBot /\ [][NextRegistry]_vars

\* The commands of one process lifetime interleaved on the event loop.
LoopHandles == {"neo"}
LoopTimezones == { <<"i","s","t">> }

NextLoop ==
    \/ \E user \in Users, handle \in LoopHandles, timezone \in LoopTimezones :
         add_handle(user, handle, timezone) /\ UNCHANGED <<aggVars, fmtVars>>
    \/ \E user \in Users :
         list_handles(user) /\ UNCHANGED <<aggVars, fmtVars>>
    \/ \E user \in Users :
         all_user_stats(user) /\ UNCHANGED <<aggVars, fmtVars>>
    \/ get_all_user_stats_enter /\ UNCHANGED <<aggVars, fmtVars>>
    \/ get_all_user_stats_step /\ UNCHANGED <<aggVars, fmtVars>>
    \/ all_user_stats_send /\ UNCHANGED <<aggVars, fmtVars>>
    \/ \E user \in Users :
         user_stats(user) /\ UNCHANGED <<aggVars, fmtVars>>
    \/ run_in_executor_done /\ UNCHANGED <<aggVars, fmtVars>>
    \/ user_stats_resume /\ UNCHANGED <<aggVars, fmtVars>>

SpecLoop == InitBot /\ [][NextLoop]_vars

---------------------------------------------------------------------------
(* Properties of get_user_stats (SpecAgg)                                  *)

\* The judge answered the submissions query with a list.
FetchSucceeded ==
    \E l \in SubmissionLists :
        fetchBody = Json(JObj1("data", JObj1("recentAcSubmissionList", JArr(l))))

Ended == pc \in {"returned", "raised"}

\* The date of the k-th submission in the user's timezone.
DateOf(k) == LocalDate(submissions[k].timestamp, user_timezone)

\* The k-th submission's difficulty lookup returned a difficulty.
LookupSucceeded(k) == judged[k].difficulty \notin {"not_called", "None"}

AllEntries(s) == UNION { { s.val[b][m] : m \in 1..Len(s.val[b]) } : b \in 1..Len(s.keys) }

\* Each bucket holds as many entries as the log says were appended to it.
BucketsMatchLog ==
    summary # EmptyDict =>
        \A b \in 1..3 :
            Len(DictGet(summary, BucketNames[b]))
                = Cardinality({ k \in 1..Len(judged) : judged[k].bucket = BucketNames[b] })

\* C1: get_user_stats returns None if and only if the submissions fetch fails;
\* when the fetch succeeds it returns a three-bucket summary that holds every
\* submission of the three-day window whose difficulty lookup succeeded,
\* whatever the other lookups did.
C1_NullIffFetchFails ==
    Ended =>
        /\ (pc = "returned" /\ result = None) <=> ~FetchSucceeded
        /\ FetchSucceeded =>
            /\ pc = "returned"
            /\ result # None
            /\ result.keys = BucketNames
            /\ \A k \in 1..Len(submissions) :
                 (k <= Len(judged) /\ DateOf(k) >= today - 2 /\ DateOf(k) <= today
                    /\ LookupSucceeded(k))
                 => Entry(submissions[k], judged[k].difficulty, DateOf(k))
                        \in AllEntries(result)

\* C2: every submission that passes the window check and whose difficulty
\* lookup succeeds is appended to exactly one bucket, the one of its date in
\* the user's timezone; none passes with a date that matches no bucket.
C2_PartitionConsistent ==
    /\ BucketsMatchLog
    /\ \A k \in 1..Len(judged) :
         (DateOf(k) >= today - 2 /\ LookupSucceeded(k))
         => \/ judged[k].bucket = "today" /\ DateOf(k) = today
            \/ judged[k].bucket = "yesterday" /\ DateOf(k) = today - 1
            \/ judged[k].bucket = "two_days_ago" /\ DateOf(k) = today - 2

\* C3: a submission whose date in the user's timezone is strictly before
\* two_days_ago is appended to no bucket, and no entry of the summary is
\* dated before two_days_ago.
C3_OldNeverBucketed ==
    /\ BucketsMatchLog
    /\ \A k \in 1..Len(judged) : DateOf(k) < today - 2 => judged[k].bucket = "none"
    /\ (pc = "returned" /\ result # None) =>
          /\ result = summary
          /\ \A e \in AllEntries(result) : e.date >= today - 2

\* A returned summary with an entry, from a list that also held a submission
\* older than the window.
C3_Witness ==
    /\ pc = "returned" /\ result # None
    /\ AllEntries(result) # {}
    /\ \E k \in 1..Len(submissions) : DateOf(k) < today - 2

\* C8: neither judge query lets a malformed, error-carrying or ill-structured
\* response raise to the caller; a failed submissions fetch gives None.
C8_QueriesNeverRaise ==
    /\ exc \notin {"JSONDecodeError", "TypeError", "KeyError"}
    /\ (pc = "returned" /\ ~FetchSucceeded) => result = None

---------------------------------------------------------------------------
(* Properties of format_user_stats_embed (SpecFmt)                         *)

\* The bucket fields' names, in the order rendered.
FieldOrder(e) == [n \in 1..(Len(e.fields) - 1) |-> e.fields[n].name]

\* The days of the totals in the trailing summary field, in the order rendered.
TotalsOrder(e) ==
    LET totals == e.fields[Len(e.fields)].value
    IN  [n \in 1..Len(totals) |-> totals[n].day]

FixedOrder == <<"Today", "Yesterday", "Two_days_ago">>

---------------------------------------------------------------------------
(* Properties of the registry (SpecRegistry)                               *)

\* C4: once add_handle has mutated the registry, the file holds exactly the
\* registry in memory, in every state another command can observe.
C4_FileMirrorsRegistry ==
    (reply.kind = "added" \/ user_data # EmptyDict) =>
        /\ file # Absent
        /\ file.text = JsonDump(user_data)
        /\ JsonLoad(file.text) = user_data

\* add_handle has just registered a second user.
C4_Witness ==
    /\ reply.kind = "added"
    /\ Len(user_data.keys) = 2
    /\ DictGet(user_data, reply.user).handle = reply.handle

\* C5: after a restart and the startup load, the registry in memory is the one
\* the last successful add_handle left: the user it registered has the same
\* handle and the canonical timezone of the abbreviation given, and every other
\* user is as before.
C5_RoundTrip ==
    boot = "ready" =>
        /\ user_data = registered
        /\ lastAdd # NoAdd =>
              /\ DictHas(user_data, lastAdd.user)
              /\ DictGet(user_data, lastAdd.user)
                    = [handle |-> lastAdd.handle, timezone |-> Canonical(lastAdd.abbr)]

\* A process that has sent nothing yet holds two users after its startup load.
C5_Witness ==
    /\ boot = "ready"
    /\ reply = NoReply
    /\ Len(user_data.keys) = 2
    /\ lastAdd # NoAdd

\* C6: add_handle with a timezone that is not recognized after upper-casing
\* changes neither the registry nor the file and answers with the list of the
\* valid abbreviations.
C6_InvalidTimezoneNoEffect ==
    [][\A user \in Users, handle \in Handles, timezone \in RawTimezones :
          (add_handle(user, handle, timezone)
             /\ Upper(timezone) \notin
                  { <<"I","S","T">>, <<"C","D","T">>, <<"P","D","T">>,
                    <<"P","S","T">>, <<"E","S","T">> })
          => /\ user_data' = user_data
             /\ file' = file
             /\ reply' = [kind |-> "invalid_timezone", to |-> user,
                          choices |-> << <<"I","S","T">>, <<"C","D","T">>,
                                         <<"P","D","T">>, <<"P","S","T">>,
                                         <<"E","S","T">> >>]]_vars

\* A registered user has just been refused an unrecognized timezone.
C6_Witness ==
    /\ reply.kind = "invalid_timezone"
    /\ DictHas(user_data, reply.to)
    /\ file # Absent

---------------------------------------------------------------------------
(* Properties of the event loop (SpecLoop)                                 *)

\* C9: while a stats command's judge queries are in progress, the event loop
\* is free to dispatch other commands.
C9_DispatcherNeverBlocked ==
    (allTask.pc = "querying" \/ userTask.pc = "querying") => ~loopBusy

\* C10: when all_user_stats, run on a non-empty registry, has ended, exactly
\* one digest has been sent for every user registered when it was invoked.
C10_OneDigestPerUser ==
    (allTask.pc \in {"done", "raised"} /\ allTask.users # <<>>) =>
        \A n \in 1..Len(allTask.users) :
            Cardinality({ m \in 1..Len(allTask.sent) :
                            allTask.sent[m] = allTask.users[n] }) = 1

=============================================================================
